---- MODULE Spec2Model ----
(***************************************************************************)
(* Model of cloud/amazon/ec2_ami.py: main, create_image, deregister_image  *)
(* and update_image, run by one or more module invocations against an EC2  *)
(* image registry.  Every remote call of the module is one step; the local *)
(* code that follows a call up to the next call belongs to the same step.  *)
(***************************************************************************)
EXTENDS Naturals, Sequences, FiniteSets

\* ------------------------------------------------------------------ bounds

\* Largest wait_timeout of a state=absent request, in seconds.
MaxWaitTimeout == 4

\* Largest wait_timeout of a state=present request, in polling iterations.
MaxPollTimeout == 2

\* Longest a remote fetch takes, in seconds of the module's clock.
MaxCallDelay == 1

\* time.sleep(3) in deregister_image's wait loop.
DeregisterSleep == 3

\* time.sleep(1) in create_image's polling loop.
PollSleep == 1

\* ------------------------------------------------------------ python values

\* A launch-permission dict: each of the two keys is present or not, and a
\* present key holds a list.  An empty dict (or None) has neither key.
Perms(hasU, u, hasG, g) ==
    [has_user_ids |-> hasU, user_ids |-> u, has_group_names |-> hasG, group_names |-> g]

NoPerms == Perms(FALSE, <<>>, FALSE, <<>>)

\* bool(launch_permissions): None and {} are false, any dict with a key is true.
PermsTruthy(lp) == lp.has_user_ids \/ lp.has_group_names

\* An account id written as an integer in the playbook is "int:<digits>",
\* the same id as a string is "<digits>".  str() maps the former to the latter.
str(user_id) ==
    CASE user_id = "int:111" -> "111"
      [] user_id = "int:222" -> "222"
      [] OTHER -> user_id

\* [str(user_id) for user_id in launch_permissions['user_ids']]
StrAll(ids) == [k \in 1..Len(ids) |-> str(ids[k])]

\* What ec2.get_image can hand back: nothing bound yet ("unbound"), None
\* ("none"), an object without image attributes ("gone") or an image.
Obj(kind) ==
    [kind |-> kind, id |-> 0, name |-> "", state |-> "", bdm |-> <<>>,
     perms |-> NoPerms, tags |-> <<>>]

Unbound == Obj("unbound")
None == Obj("none")
Gone == Obj("gone")

Image(id, name, state, bdm, perms) ==
    [kind |-> "image", id |-> id, name |-> name, state |-> state, bdm |-> bdm,
     perms |-> perms, tags |-> <<>>]

\* One entry of an image's block device mapping.
Device(name, snap) == [device_name |-> name, snapshot_id |-> snap]

\* One entry of the request's device_mapping list.
DeviceSpec(hasName, name) == [has_device_name |-> hasName, device_name |-> name]

\* ------------------------------------------------------------------ request

\* module.params with the argument_spec defaults; "" and 0 stand for None.
DefaultRequest ==
    [state |-> "present", action |-> "create", instance_id |-> "",
     snapshot_id |-> "", virtualization_type |-> "", architecture |-> "x86_64",
     delete_root_volume_on_termination |-> FALSE, sriov_net_support |-> "",
     image_id |-> 0, delete_snapshot |-> FALSE, name |-> "", wait |-> FALSE,
     wait_timeout |-> MaxPollTimeout, device_mapping |-> <<>>, tags |-> <<>>,
     launch_permissions |-> NoPerms]

\* ------------------------------------------------------------------ outcome

\* What the invocation reported: exit_json ("exit"), fail_json ("fail"), an
\* uncaught Python exception ("crash") or nothing at all ("none").  changed
\* is "True", "False" or "unset" (the keyword was not passed).
Outcome(kind, changed, msg, code, image_id, hasSnaps, snaps) ==
    [kind |-> kind, changed |-> changed, msg |-> msg, code |-> code,
     image_id |-> image_id, state |-> "", has_snapshots_deleted |-> hasSnaps,
     snapshots_deleted |-> snaps]

NoOutcome == Outcome("none", "unset", "", "", 0, FALSE, <<>>)

exit_json(msg, changed) == Outcome("exit", changed, msg, "", 0, FALSE, <<>>)

fail_json(msg) == Outcome("fail", "unset", msg, "", 0, FALSE, <<>>)

\* fail_json(msg="%s: %s" % (e.error_code, e.error_message))
fail_remote(msg, code) == Outcome("fail", "unset", msg, code, 0, FALSE, <<>>)

crash(exception) == Outcome("crash", "unset", exception, "", 0, FALSE, <<>>)

\* ------------------------------------------------------------------ state

VARIABLES
    params,     \* per invocation: module.params
    local,      \* per invocation: program counter and local variables
    outcome,    \* per invocation: what it reported
    registry,   \* the images EC2 holds; an image's id is its index
    snapstore,  \* the snapshot ids EC2 holds
    calls,      \* the remote calls issued so far, in order
    now         \* time.time()

vars == <<params, local, outcome, registry, snapstore, calls, now>>

Procs == DOMAIN params

\* A remote call and its reply as recorded in calls: err is the error code
\* of the exception it raised ("" when it returned), obj the object returned.
Call(p, op, image_id, snapshot_id, perms, err, obj) ==
    [p |-> p, op |-> op, image_id |-> image_id, snapshot_id |-> snapshot_id,
     perms |-> perms, err |-> err, obj |-> obj]

CallsOf(p) == SelectSeq(calls, LAMBDA c : c.p = p)

Issued(p, op) == SelectSeq(calls, LAMBDA c : c.p = p /\ c.op = op)

\* The local variables of one invocation before main has run.
InitLocal ==
    [pc |-> "main", image_id |-> 0, image_id_bound |-> FALSE, img |-> Unbound,
     i |-> 0, snapshots |-> <<>>, j |-> 0, deadline |-> 0,
     launch_permissions |-> NoPerms, set_permissions |-> NoPerms,
     broke |-> FALSE]

\* ------------------------------------------------------------------- main

Route(to, msg) == [to |-> to, msg |-> msg]

\* RegisterChecks without the check that snapshot_id and device_mapping
\* exclude each other.
RegisterChecks_NoConflict(req) ==
    IF req.virtualization_type = ""
    THEN "virtualization_type is required for new image"
    ELSE IF req.virtualization_type \notin {"paravirtual", "hvm"}
    THEN "virtualization_type must be either paravirtual or hvm"
    ELSE IF req.snapshot_id = "" /\ req.device_mapping = <<>>
    THEN "either snapshot_id or device_mapping is required for new image"
    ELSE IF req.architecture \notin {"x86_64", "i386"}
    THEN "architecture must be eith x86_64 or i386"
    ELSE IF req.delete_root_volume_on_termination /\ req.snapshot_id = ""
    THEN "snapshot_id is required when using delete_root_volume_on_termination"
    ELSE IF req.sriov_net_support # "" /\ req.sriov_net_support \notin {"simple"}
    THEN "sriov_net_support must be simple or not set"
    ELSE ""

\* The checks main makes for action=register, in the order it makes them.
RegisterChecks(req) ==
    IF req.virtualization_type = ""
    THEN "virtualization_type is required for new image"
    ELSE IF req.virtualization_type \notin {"paravirtual", "hvm"}
    THEN "virtualization_type must be either paravirtual or hvm"
    ELSE IF req.snapshot_id = "" /\ req.device_mapping = <<>>
    THEN "either snapshot_id or device_mapping is required for new image"
    ELSE IF req.snapshot_id # "" /\ req.device_mapping # <<>>
    THEN "device_mapping is mutually exclusive with snapshot_id"
    ELSE IF req.architecture \notin {"x86_64", "i386"}
    THEN "architecture must be eith x86_64 or i386"
    ELSE IF req.delete_root_volume_on_termination /\ req.snapshot_id = ""
    THEN "snapshot_id is required when using delete_root_volume_on_termination"
    ELSE IF req.sriov_net_support # "" /\ req.sriov_net_support \notin {"simple"}
    THEN "sriov_net_support must be simple or not set"
    ELSE ""

\* The checks main makes before create_image; "" when the request passes.
PresentChecks(req) ==
    IF req.action \notin {"create", "register"}
    THEN "action must be create or register"
    ELSE IF req.action = "create" /\ req.instance_id = ""
    THEN "instance_id is required for new image"
    ELSE IF req.action = "register" /\ RegisterChecks(req) # ""
    THEN RegisterChecks(req)
    ELSE IF req.name = ""
    THEN "name parameter is required for new image"
    ELSE ""

\* state=present with image_id and launch_permissions goes to update_image,
\* which never returns to main.
IsUpdateRequest(req) == req.image_id # 0 /\ PermsTruthy(req.launch_permissions)

\* Which function main calls, or the failure it reports instead.
MainRoute(req) ==
    IF req.state = "absent"
    THEN IF req.image_id = 0
         THEN Route("fail", "image_id needs to be an ami image to registered/delete")
         ELSE Route("deregister_image", "")
    ELSE IF req.state = "present"
    THEN IF IsUpdateRequest(req)
         THEN Route("update_image", "")
         ELSE IF PresentChecks(req) # ""
         THEN Route("fail", PresentChecks(req))
         ELSE Route("create_image", "")
    ELSE Route("return", "")

\* The invocation ends with outcome o.
Finish(p, o) ==
    /\ outcome' = [outcome EXCEPT ![p] = o]
    /\ local' = [local EXCEPT ![p].pc = "done"]

\* The invocation ends with outcome o and local variables l.
FinishWith(p, l, o) ==
    /\ outcome' = [outcome EXCEPT ![p] = o]
    /\ local' = [local EXCEPT ![p] = [l EXCEPT !.pc = "done"]]

\* The invocation goes on with local variables l.
Goto(p, l) ==
    /\ local' = [local EXCEPT ![p] = l]
    /\ UNCHANGED outcome

\* The remote call c is issued.
Record(c) == calls' = Append(calls, c)

main(p) ==
    /\ local[p].pc = "main"
    /\ LET r == MainRoute(params[p]) IN
       CASE r.to = "fail" -> Finish(p, fail_json(r.msg))
         [] r.to = "return" -> Finish(p, NoOutcome)
         [] r.to = "deregister_image" ->
              Goto(p, [local[p] EXCEPT !.pc = "dr_fetch"])
         [] r.to = "update_image" ->
              Goto(p, [local[p] EXCEPT !.pc = "up_fetch"])
         [] OTHER ->
              Goto(p, [local[p] EXCEPT !.pc = "ci_lookup"])
    /\ UNCHANGED <<params, registry, snapstore, calls, now>>

\* -------------------------------------------------------------- the registry

\* Error codes a failing fetch carries.
FetchErrors == {"InvalidAMIID.NotFound", "InvalidAMIID.Unavailable", "AuthFailure"}

\* Error code of any other failing call.
CallErrors == {"AuthFailure"}

Reply(err, obj) == [err |-> err, obj |-> obj]

\* What EC2 shows of image id: a registered image may not be visible yet, a
\* deregistered one is an object without attributes until EC2 forgets it.
Visible(id) ==
    IF id \in 1..Len(registry)
    THEN CASE registry[id].kind = "image" -> {registry[id], None}
           [] registry[id].kind = "gone" -> {Gone}
           [] OTHER -> {None}
    ELSE {None}

\* The replies ec2.get_image(id) can give: an exception or an object.
GetImageReplies(id) ==
    {Reply(e, Unbound) : e \in FetchErrors} \cup {Reply("", o) : o \in Visible(id)}

\* ec2.get_image(id) with reply r, as recorded in calls.
GetImageCall(p, id, r) == Call(p, "get_image", id, "", NoPerms, r.err, r.obj)

\* A pending image becomes available or failed.
RegistryProgress ==
    /\ \E id \in 1..Len(registry), s \in {"available", "failed"} :
          /\ registry[id].kind = "image"
          /\ registry[id].state = "pending"
          /\ registry' = [registry EXCEPT ![id].state = s]
    /\ UNCHANGED <<params, local, outcome, snapstore, calls, now>>

\* EC2 forgets a deregistered image.
RegistryForget ==
    /\ \E id \in 1..Len(registry) :
          /\ registry[id].kind = "gone"
          /\ registry' = [registry EXCEPT ![id] = None]
    /\ UNCHANGED <<params, local, outcome, snapstore, calls, now>>

\* -------------------------------------------------------- deregister_image

\* CapturedSnapshots reading the mapping only of an image that is gone.
CapturedSnapshots_AfterDeregister(img) ==
    IF img.kind = "gone"
    THEN [k \in 1..Len(img.bdm) |-> img.bdm[k].snapshot_id]
    ELSE <<>>

\* Lines 528-531: the snapshot ids of the image's block device mapping.
CapturedSnapshots(img) ==
    IF img.kind = "image"
    THEN [k \in 1..Len(img.bdm) |-> img.bdm[k].snapshot_id]
    ELSE <<>>

\* HasId taking every object for an image.
HasId_Always(img) == TRUE

\* Line 535: hasattr(img, 'id'); the object EC2 returns for an image already
\* deleted has no such attribute.
HasId(img) == img.kind = "image"

\* Lines 523-543: fetch, capture the snapshots, decide whether to deregister.
deregister_image_fetch(p) ==
    /\ local[p].pc = "dr_fetch"
    /\ \E r \in GetImageReplies(params[p].image_id) :
          /\ Record(GetImageCall(p, params[p].image_id, r))
          /\ IF r.err # ""
             THEN Finish(p, crash("EC2ResponseError"))
             ELSE IF r.obj.kind = "none"
             THEN Finish(p, Outcome("fail", "False", "Image does not exist", "",
                                    0, FALSE, <<>>))
             ELSE IF HasId(r.obj)
             THEN Goto(p, [local[p] EXCEPT !.pc = "dr_deregister", !.img = r.obj,
                                           !.snapshots = CapturedSnapshots(r.obj)])
             ELSE Finish(p, exit_json("Image has already been deleted", "False"))
    /\ UNCHANGED <<params, registry, snapstore, now>>

\* boto deletes the snapshot of /dev/sda1 itself when asked to.
RootSnapshots(img) ==
    {img.bdm[k].snapshot_id : k \in {n \in 1..Len(img.bdm) : img.bdm[n].device_name = "/dev/sda1"}}

\* Lines 536-541: ec2.deregister_image(image_id, delete_snapshot).
deregister_image_deregister(p) ==
    /\ local[p].pc = "dr_deregister"
    /\ LET id == params[p].image_id IN
       \/ /\ id \in 1..Len(registry)
          /\ registry[id].kind = "image"
          /\ Record(Call(p, "deregister_image", id, "", NoPerms, "", None))
          /\ registry' = [registry EXCEPT ![id] = Gone]
          /\ snapstore' = IF params[p].delete_snapshot
                          THEN snapstore \ RootSnapshots(registry[id])
                          ELSE snapstore
          /\ Goto(p, [local[p] EXCEPT !.pc = "dr_refetch"])
       \/ /\ \E e \in CallErrors :
                /\ Record(Call(p, "deregister_image", id, "", NoPerms, e, None))
                /\ Finish(p, fail_remote("remote error", e))
          /\ UNCHANGED <<registry, snapstore>>
    /\ UNCHANGED <<params, now>>

\* Lines 546-547: fetch again and fix the deadline.
deregister_image_refetch(p) ==
    /\ local[p].pc = "dr_refetch"
    /\ \E r \in GetImageReplies(params[p].image_id) :
          /\ Record(GetImageCall(p, params[p].image_id, r))
          /\ IF r.err # ""
             THEN Finish(p, crash("EC2ResponseError"))
             ELSE Goto(p, [local[p] EXCEPT !.pc = "dr_wait", !.img = r.obj,
                                           !.deadline = now + params[p].wait_timeout])
    /\ UNCHANGED <<params, registry, snapstore, now>>

\* StillWaiting with the test of img turned round.
StillWaiting_WhileGone(p) ==
    /\ params[p].wait
    /\ local[p].deadline > now
    /\ local[p].img.kind = "none"

\* Line 548: while wait and wait_timeout > time.time() and img is not None.
StillWaiting(p) ==
    /\ params[p].wait
    /\ local[p].deadline > now
    /\ local[p].img.kind # "none"

\* Lines 549-550: one turn of the wait loop.
deregister_image_wait(p) ==
    /\ local[p].pc = "dr_wait"
    /\ StillWaiting(p)
    /\ \E r \in GetImageReplies(params[p].image_id), d \in 0..MaxCallDelay :
          /\ Record(GetImageCall(p, params[p].image_id, r))
          /\ now' = now + d + DeregisterSleep
          /\ IF r.err # ""
             THEN Finish(p, crash("EC2ResponseError"))
             ELSE Goto(p, [local[p] EXCEPT !.img = r.obj])
    /\ UNCHANGED <<params, registry, snapstore>>

\* The success result of deregister_image.
deregister_image_result(p) ==
    IF params[p].delete_snapshot
    THEN Outcome("exit", "True", "AMI deregister/delete operation complete", "",
                 0, TRUE, local[p].snapshots)
    ELSE exit_json("AMI deregister/delete operation complete", "True")

\* Lines 551-557 and 566-567: the loop is over.
deregister_image_waited(p) ==
    /\ local[p].pc = "dr_wait"
    /\ ~StillWaiting(p)
    /\ IF params[p].wait /\ local[p].deadline <= now
       THEN Finish(p, fail_json("timed out waiting for image to be deregistered/deleted"))
       ELSE IF params[p].delete_snapshot /\ local[p].snapshots # <<>>
       THEN Goto(p, [local[p] EXCEPT !.pc = "dr_delete", !.j = 1])
       ELSE Finish(p, deregister_image_result(p))
    /\ UNCHANGED <<params, registry, snapstore, calls, now>>

\* Lines 558-565: ec2.delete_snapshot for the next captured snapshot.  Any
\* BotoServerError ends the loop; the handler reports none of them.
deregister_image_delete_snapshot(p) ==
    /\ local[p].pc = "dr_delete"
    /\ LET sid == local[p].snapshots[local[p].j] IN
       \/ /\ sid \in snapstore
          /\ Record(Call(p, "delete_snapshot", 0, sid, NoPerms, "", None))
          /\ snapstore' = snapstore \ {sid}
          /\ IF local[p].j < Len(local[p].snapshots)
             THEN Goto(p, [local[p] EXCEPT !.j = @ + 1])
             ELSE Finish(p, deregister_image_result(p))
       \/ /\ \E e \in (IF sid \in snapstore THEN {} ELSE {"InvalidSnapshot.NotFound"})
                      \cup CallErrors :
                /\ Record(Call(p, "delete_snapshot", 0, sid, NoPerms, e, None))
                /\ Finish(p, deregister_image_result(p))
          /\ UNCHANGED snapstore
    /\ UNCHANGED <<params, registry, now>>

\* ------------------------------------------------------------ update_image

\* ConvertUserIds leaving the user ids as the request wrote them.
ConvertUserIds_Skip(lp) == lp

\* Lines 577-578: the user ids of the requested permissions as strings.
ConvertUserIds(lp) ==
    IF lp.has_user_ids THEN [lp EXCEPT !.user_ids = StrAll(lp.user_ids)] ELSE lp

\* HasAccountOrGroup looking at the accounts only.
HasAccountOrGroup_AccountsOnly(d) ==
    d.has_user_ids /\ d.user_ids # <<>>

\* ('user_ids' in d and d['user_ids']) or ('group_names' in d and d['group_names'])
HasAccountOrGroup(d) ==
    \/ d.has_user_ids /\ d.user_ids # <<>>
    \/ d.has_group_names /\ d.group_names # <<>>

\* Line 586: set_permissions != launch_permissions, as Python compares dicts.
PermissionsDiffer(set_permissions, launch_permissions) ==
    set_permissions # launch_permissions

\* The elements of list a followed by those of list b that a lacks.
Merge(a, b) == a \o SelectSeq(b, LAMBDA x : \A k \in 1..Len(a) : a[k] # x)

\* The elements of list a that list b lacks.
Without(a, b) == SelectSeq(a, LAMBDA x : \A k \in 1..Len(b) : b[k] # x)

\* The launch permissions of an image after a grant of lp.
Granted(cur, lp) ==
    Perms(cur.has_user_ids \/ lp.has_user_ids, Merge(cur.user_ids, lp.user_ids),
          cur.has_group_names \/ lp.has_group_names,
          Merge(cur.group_names, lp.group_names))

\* The launch permissions of an image after a revoke of lp.
Revoked(cur, lp) ==
    Perms(cur.has_user_ids, Without(cur.user_ids, lp.user_ids),
          cur.has_group_names, Without(cur.group_names, lp.group_names))

\* Lines 575-582: convert the user ids, fetch the image.
update_image_fetch(p) ==
    /\ local[p].pc = "up_fetch"
    /\ \E r \in GetImageReplies(params[p].image_id) :
          /\ Record(GetImageCall(p, params[p].image_id, r))
          /\ IF r.err # ""
             THEN Finish(p, crash("EC2ResponseError"))
             ELSE IF r.obj.kind = "none"
             THEN Finish(p, Outcome("fail", "False", "Image does not exist", "",
                                    0, FALSE, <<>>))
             ELSE Goto(p, [local[p] EXCEPT
                             !.pc = "up_getperm", !.img = r.obj,
                             !.launch_permissions =
                                 ConvertUserIds(params[p].launch_permissions)])
    /\ UNCHANGED <<params, registry, snapstore, now>>

\* Lines 585-598: img.get_launch_permissions() and the choice that follows.
update_image_get_launch_permissions(p) ==
    /\ local[p].pc = "up_getperm"
    /\ LET id == params[p].image_id
           lp == local[p].launch_permissions
       IN
       \/ /\ id \in 1..Len(registry)
          /\ registry[id].kind = "image"
          /\ LET set_permissions == registry[id].perms IN
             /\ Record(Call(p, "get_launch_permissions", id, "", set_permissions,
                            "", None))
             /\ IF PermissionsDiffer(set_permissions, lp)
                THEN IF HasAccountOrGroup(lp)
                     THEN Goto(p, [local[p] EXCEPT !.pc = "up_set",
                                       !.set_permissions = set_permissions])
                     ELSE IF HasAccountOrGroup(set_permissions)
                     THEN Goto(p, [local[p] EXCEPT !.pc = "up_remove",
                                       !.set_permissions = set_permissions])
                     ELSE Finish(p, exit_json("AMI not updated", "False"))
                ELSE Finish(p, exit_json("AMI not updated", "False"))
       \/ \E e \in CallErrors :
             /\ Record(Call(p, "get_launch_permissions", id, "", NoPerms, e, None))
             /\ Finish(p, fail_remote("remote error", e))
    /\ UNCHANGED <<params, registry, snapstore, now>>

\* Lines 588 and 593: img.set_launch_permissions(**launch_permissions).
update_image_set_launch_permissions(p) ==
    /\ local[p].pc = "up_set"
    /\ LET id == params[p].image_id
           lp == local[p].launch_permissions
       IN
       \/ /\ id \in 1..Len(registry)
          /\ registry[id].kind = "image"
          /\ Record(Call(p, "set_launch_permissions", id, "", lp, "", None))
          /\ registry' = [registry EXCEPT ![id].perms = Granted(@, lp)]
          /\ Finish(p, exit_json("AMI launch permissions updated", "True"))
       \/ /\ \E e \in CallErrors :
                /\ Record(Call(p, "set_launch_permissions", id, "", lp, e, None))
                /\ Finish(p, fail_remote("remote error", e))
          /\ UNCHANGED registry
    /\ UNCHANGED <<params, snapstore, now>>

\* Lines 590 and 593: img.remove_launch_permissions(**set_permissions).
update_image_remove_launch_permissions(p) ==
    /\ local[p].pc = "up_remove"
    /\ LET id == params[p].image_id
           sp == local[p].set_permissions
       IN
       \/ /\ id \in 1..Len(registry)
          /\ registry[id].kind = "image"
          /\ Record(Call(p, "remove_launch_permissions", id, "", sp, "", None))
          /\ registry' = [registry EXCEPT ![id].perms = Revoked(@, sp)]
          /\ Finish(p, exit_json("AMI launch permissions updated", "True"))
       \/ /\ \E e \in CallErrors :
                /\ Record(Call(p, "remove_launch_permissions", id, "", sp, e, None))
                /\ Finish(p, fail_remote("remote error", e))
          /\ UNCHANGED registry
    /\ UNCHANGED <<params, snapstore, now>>

\* ------------------------------------------------------------ create_image

\* Line 455: the images of the registry with the given name.
ImagesNamed(name) ==
    SelectSeq(registry, LAMBDA im : im.kind = "image" /\ im.name = name)

\* NameAlreadyPresent that never finds the name.
NameAlreadyPresent_Never(images) == FALSE

\* Line 457: if images and images[0].
NameAlreadyPresent(images) == images # <<>>

\* DeviceNameMissing looking at the first entry only.
DeviceNameMissing_FirstOnly(device_mapping) ==
    device_mapping # <<>> /\ ~device_mapping[1].has_device_name

\* Lines 462-464: some entry of device_mapping has no device_name.
DeviceNameMissing(device_mapping) ==
    \E k \in 1..Len(device_mapping) : ~device_mapping[k].has_device_name

\* Lines 472-475: the call that follows the lookup, or the polling loop.
AfterLookup(req) ==
    IF req.instance_id # "" THEN "ci_create"
    ELSE IF req.snapshot_id # "" THEN "ci_register"
    ELSE "ci_poll"

\* Lines 474-475: the call that follows ec2.create_image, or the polling loop.
AfterCreate(req) == IF req.snapshot_id # "" THEN "ci_register" ELSE "ci_poll"

\* Lines 395-412: the attributes of img the result carries.
get_ami_info(img) == [image_id |-> img.id, state |-> img.state]

\* Line 510: exit_json(changed=True, **get_ami_info(img)).
CreateResult(img) ==
    [Outcome("exit", "True", "AMI creation operation complete", "",
             get_ami_info(img).image_id, FALSE, <<>>)
       EXCEPT !.state = get_ami_info(img).state]

\* Lines 498-510 from the given stage on: the next call to make, or the result.
Proceed(p, l, stage) ==
    IF stage = "ci_tags" /\ params[p].tags # <<>>
    THEN Goto(p, [l EXCEPT !.pc = "ci_tags"])
    ELSE IF stage \in {"ci_tags", "ci_perm_fetch"}
            /\ PermsTruthy(params[p].launch_permissions)
    THEN Goto(p, [l EXCEPT !.pc = "ci_perm_fetch"])
    ELSE FinishWith(p, l, CreateResult(l.img))

\* Lines 455-470: look the name up, then build the block device mapping.
create_image_lookup(p) ==
    /\ local[p].pc = "ci_lookup"
    /\ \/ LET images == ImagesNamed(params[p].name) IN
          /\ Record(Call(p, "get_all_images", 0, "", NoPerms, "",
                         IF images = <<>> THEN None ELSE images[1]))
          /\ IF NameAlreadyPresent(images)
             THEN Finish(p, [Outcome("exit", "False", "AMI name already present",
                                     "", images[1].id, FALSE, <<>>)
                               EXCEPT !.state = images[1].state])
             ELSE IF DeviceNameMissing(params[p].device_mapping)
             THEN Finish(p, fail_json("Device name must be set for volume"))
             ELSE Goto(p, [local[p] EXCEPT !.pc = AfterLookup(params[p])])
       \/ \E e \in CallErrors :
             /\ Record(Call(p, "get_all_images", 0, "", NoPerms, e, None))
             /\ Finish(p, fail_remote("remote error", e))
    /\ UNCHANGED <<params, registry, snapstore, now>>

\* The registry with a new image of the given name; its id is its index.
Registered(name) ==
    Append(registry, Image(Len(registry) + 1, name, "pending", <<>>, NoPerms))

\* create_image_create looking the name up once more before it creates.
create_image_create_IfNameFree(p) ==
    /\ local[p].pc = "ci_create"
    /\ \/ /\ ImagesNamed(params[p].name) = <<>>
          /\ Record(Call(p, "create_image", Len(registry) + 1, "", NoPerms, "", None))
          /\ registry' = Registered(params[p].name)
          /\ Goto(p, [local[p] EXCEPT !.pc = AfterCreate(params[p]),
                                      !.image_id = Len(registry) + 1,
                                      !.image_id_bound = TRUE])
       \/ /\ ImagesNamed(params[p].name) # <<>>
          /\ Finish(p, exit_json("AMI name already present", "False"))
          /\ UNCHANGED <<registry, calls>>
       \/ /\ \E e \in CallErrors :
                /\ Record(Call(p, "create_image", 0, "", NoPerms, e, None))
                /\ Finish(p, fail_remote("remote error", e))
          /\ UNCHANGED registry
    /\ UNCHANGED <<params, snapstore, now>>

\* Lines 472-473 and 477-478: ec2.create_image(**params).
create_image_create(p) ==
    /\ local[p].pc = "ci_create"
    /\ \/ /\ Record(Call(p, "create_image", Len(registry) + 1, "", NoPerms, "", None))
          /\ registry' = Registered(params[p].name)
          /\ Goto(p, [local[p] EXCEPT !.pc = AfterCreate(params[p]),
                                      !.image_id = Len(registry) + 1,
                                      !.image_id_bound = TRUE])
       \/ /\ \E e \in CallErrors :
                /\ Record(Call(p, "create_image", 0, "", NoPerms, e, None))
                /\ Finish(p, fail_remote("remote error", e))
          /\ UNCHANGED registry
    /\ UNCHANGED <<params, snapstore, now>>

\* Lines 474-475 and 477-478: ec2.register_image(**register_params).
create_image_register(p) ==
    /\ local[p].pc = "ci_register"
    /\ \/ /\ Record(Call(p, "register_image", Len(registry) + 1, "", NoPerms, "", None))
          /\ registry' = Registered(params[p].name)
          /\ Goto(p, [local[p] EXCEPT !.pc = "ci_poll",
                                      !.image_id = Len(registry) + 1,
                                      !.image_id_bound = TRUE])
       \/ /\ \E e \in CallErrors :
                /\ Record(Call(p, "register_image", 0, "", NoPerms, e, None))
                /\ Finish(p, fail_remote("remote error", e))
          /\ UNCHANGED registry
    /\ UNCHANGED <<params, snapstore, now>>

\* Line 490: the fetch error that ends the operation.
FatalPollError(code, wait, i, wait_timeout) ==
    /\ code \notin {"InvalidAMIID.NotFound", "InvalidAMIID.Unavailable"}
    /\ wait
    /\ i = wait_timeout - 1

\* Lines 483-493: one turn of the polling loop, sleep included.  Reading
\* image_id before any call has set it, or the state of None, raises an
\* exception nobody catches.
create_image_poll(p) ==
    /\ local[p].pc = "ci_poll"
    /\ local[p].i < params[p].wait_timeout
    /\ IF ~local[p].image_id_bound
       THEN /\ Finish(p, crash("UnboundLocalError"))
            /\ UNCHANGED calls
       ELSE \E r \in GetImageReplies(local[p].image_id) :
               /\ Record(GetImageCall(p, local[p].image_id, r))
               /\ IF r.err # ""
                  THEN IF FatalPollError(r.err, params[p].wait, local[p].i,
                                         params[p].wait_timeout)
                       THEN Finish(p, fail_remote("Error while trying to find the new image", r.err))
                       ELSE Goto(p, [local[p] EXCEPT !.i = @ + 1])
                  ELSE IF r.obj.kind # "image"
                  THEN FinishWith(p, [local[p] EXCEPT !.img = r.obj],
                                  crash("AttributeError"))
                  ELSE IF r.obj.state = "available"
                  THEN Proceed(p, [local[p] EXCEPT !.img = r.obj, !.broke = TRUE],
                               "ci_tags")
                  ELSE Goto(p, [local[p] EXCEPT !.img = r.obj, !.i = @ + 1])
    /\ now' = now + PollSleep
    /\ UNCHANGED <<params, registry, snapstore>>

\* NotAvailable letting every record through.
NotAvailable_Never(img) == FALSE

\* Line 495: img.state != 'available'.
NotAvailable(img) == img.state # "available"

\* Lines 495-496: the loop ran out without a break.
create_image_polled(p) ==
    /\ local[p].pc = "ci_poll"
    /\ local[p].i >= params[p].wait_timeout
    /\ IF local[p].img.kind = "unbound"
       THEN Finish(p, crash("UnboundLocalError"))
       ELSE IF NotAvailable(local[p].img)
       THEN Finish(p, fail_json("Error while trying to find the new image"))
       ELSE Proceed(p, local[p], "ci_tags")
    /\ UNCHANGED <<params, registry, snapstore, calls, now>>

\* create_image_tags with the tagging error swallowed instead of reported.
create_image_tags_Swallowed(p) ==
    /\ local[p].pc = "ci_tags"
    /\ LET id == local[p].image_id IN
       \/ /\ id \in 1..Len(registry)
          /\ registry[id].kind = "image"
          /\ Record(Call(p, "create_tags", id, "", NoPerms, "", None))
          /\ registry' = [registry EXCEPT ![id].tags = params[p].tags]
          /\ Proceed(p, local[p], "ci_perm_fetch")
       \/ /\ \E e \in CallErrors :
                /\ Record(Call(p, "create_tags", id, "", NoPerms, e, None))
                /\ Proceed(p, local[p], "ci_perm_fetch")
          /\ UNCHANGED registry
    /\ UNCHANGED <<params, snapstore, now>>

\* Lines 498-502: ec2.create_tags(image_id, tags).
create_image_tags(p) ==
    /\ local[p].pc = "ci_tags"
    /\ LET id == local[p].image_id IN
       \/ /\ id \in 1..Len(registry)
          /\ registry[id].kind = "image"
          /\ Record(Call(p, "create_tags", id, "", NoPerms, "", None))
          /\ registry' = [registry EXCEPT ![id].tags = params[p].tags]
          /\ Proceed(p, local[p], "ci_perm_fetch")
       \/ /\ \E e \in CallErrors :
                /\ Record(Call(p, "create_tags", id, "", NoPerms, e, None))
                /\ Finish(p, fail_remote("Image tagging failed", e))
          /\ UNCHANGED registry
    /\ UNCHANGED <<params, snapstore, now>>

\* fail_with_image without the image_id keyword.
fail_with_image_NoId(code, image_id) ==
    Outcome("fail", "unset", "remote error", code, 0, FALSE, <<>>)

\* fail_json(msg="%s: %s" % (e.error_code, e.error_message), image_id=image_id)
fail_with_image(code, image_id) ==
    Outcome("fail", "unset", "remote error", code, image_id, FALSE, <<>>)

\* Lines 504-505: fetch the image again before the grant.
create_image_fetch_again(p) ==
    /\ local[p].pc = "ci_perm_fetch"
    /\ \E r \in GetImageReplies(local[p].image_id) :
          /\ Record(GetImageCall(p, local[p].image_id, r))
          /\ IF r.err # ""
             THEN Finish(p, fail_with_image(r.err, local[p].image_id))
             ELSE IF r.obj.kind # "image"
             THEN FinishWith(p, [local[p] EXCEPT !.img = r.obj],
                             crash("AttributeError"))
             ELSE Goto(p, [local[p] EXCEPT !.pc = "ci_perm_set", !.img = r.obj])
    /\ UNCHANGED <<params, registry, snapstore, now>>

\* Lines 506-510: img.set_launch_permissions(**launch_permissions).
create_image_set_launch_permissions(p) ==
    /\ local[p].pc = "ci_perm_set"
    /\ LET id == local[p].image_id
           lp == params[p].launch_permissions
       IN
       \/ /\ id \in 1..Len(registry)
          /\ registry[id].kind = "image"
          /\ Record(Call(p, "set_launch_permissions", id, "", lp, "", None))
          /\ registry' = [registry EXCEPT ![id].perms = Granted(@, lp)]
          /\ Finish(p, CreateResult(local[p].img))
       \/ /\ \E e \in CallErrors :
                /\ Record(Call(p, "set_launch_permissions", id, "", lp, e, None))
                /\ Finish(p, fail_with_image(e, id))
          /\ UNCHANGED registry
    /\ UNCHANGED <<params, snapstore, now>>

\* ------------------------------------------------------------ requests

SnapshotIds == {"snap-1", "snap-2"}

\* Block device mappings of the image a request goes for, in iteration order.
BdmChoices ==
    {<<>>,
     <<Device("/dev/sda1", "snap-1")>>,
     <<Device("/dev/sda1", "snap-1"), Device("/dev/sdb", "snap-2")>>,
     <<Device("/dev/sdb", "snap-2"), Device("/dev/sda1", "snap-1")>>}

AbsentRequests ==
    {[DefaultRequest EXCEPT !.state = "absent", !.image_id = id,
                            !.delete_snapshot = ds, !.wait = w, !.wait_timeout = wt] :
        id \in {0, 1}, ds \in BOOLEAN, w \in BOOLEAN, wt \in 0..MaxWaitTimeout}

AbsentRegistries ==
    {<<>>, <<Gone>>} \cup {<<Image(1, "n1", "available", b, NoPerms)>> : b \in BdmChoices}

InitAbsent ==
    /\ params \in [{1} -> AbsentRequests]
    /\ registry \in AbsentRegistries

\* launch_permissions values of requests: account ids as integers or strings.
RequestedPerms ==
    {Perms(TRUE, <<"int:111">>, FALSE, <<>>),
     Perms(TRUE, <<"111">>, FALSE, <<>>),
     Perms(TRUE, <<"111", "int:222">>, FALSE, <<>>),
     Perms(TRUE, <<"222", "111">>, FALSE, <<>>),
     Perms(FALSE, <<>>, TRUE, <<"all">>),
     Perms(TRUE, <<"111">>, TRUE, <<"all">>),
     Perms(TRUE, <<>>, FALSE, <<>>),
     Perms(TRUE, <<>>, TRUE, <<>>)}

\* Launch permissions an image of the registry starts with.
RegistryPerms ==
    {NoPerms,
     Perms(TRUE, <<"111">>, FALSE, <<>>),
     Perms(TRUE, <<"111", "222">>, FALSE, <<>>),
     Perms(FALSE, <<>>, TRUE, <<"all">>),
     Perms(TRUE, <<"111">>, TRUE, <<"all">>),
     Perms(TRUE, <<>>, TRUE, <<>>)}

UpdateRequests ==
    {[DefaultRequest EXCEPT !.image_id = 1, !.launch_permissions = lp,
                            !.action = a, !.snapshot_id = s, !.device_mapping = dm] :
        lp \in RequestedPerms, a \in {"create", "register"}, s \in {"", "snap-1"},
        dm \in {<<>>, <<DeviceSpec(TRUE, "/dev/sda1")>>}}

UpdateRegistries ==
    {<<>>} \cup {<<Image(1, "n1", "available", <<>>, perms)>> : perms \in RegistryPerms}

InitUpdate ==
    /\ params \in [{1} -> UpdateRequests]
    /\ registry \in UpdateRegistries

\* Requests that exercise the checks of main.
ValidationRequests ==
    {[DefaultRequest EXCEPT !.action = a, !.instance_id = i, !.snapshot_id = s,
                            !.device_mapping = dm, !.virtualization_type = vt,
                            !.architecture = ar, !.name = n,
                            !.delete_root_volume_on_termination = drv,
                            !.sriov_net_support = sr, !.wait_timeout = 1] :
        a \in {"create", "register", "bogus"}, i \in {"", "i-1"},
        s \in {"", "snap-1"},
        dm \in {<<>>, <<DeviceSpec(TRUE, "/dev/sda1"), DeviceSpec(FALSE, "")>>},
        vt \in {"", "hvm", "bogus"}, ar \in {"x86_64", "bogus"}, n \in {"", "n1"},
        drv \in BOOLEAN, sr \in {"", "simple", "bogus"}}

\* Requests that exercise create_image.
CreateRequests ==
    {[DefaultRequest EXCEPT !.action = a, !.instance_id = i, !.snapshot_id = s,
                            !.device_mapping = dm, !.virtualization_type = "hvm",
                            !.name = "n1", !.wait = w, !.wait_timeout = wt,
                            !.tags = t, !.launch_permissions = lp] :
        a \in {"create", "register"}, i \in {"", "i-1"}, s \in {"", "snap-1"},
        dm \in {<<>>, <<DeviceSpec(TRUE, "/dev/sda1")>>},
        w \in BOOLEAN, wt \in 0..MaxPollTimeout, t \in {<<>>, <<"Name=n1">>},
        lp \in {NoPerms, Perms(TRUE, <<"int:111">>, FALSE, <<>>)}}

\* A request whose state is neither present nor absent.
OtherRequests == {[DefaultRequest EXCEPT !.state = "other"]}

PresentRegistries ==
    {<<>>} \cup {<<Image(1, n, "available", <<>>, NoPerms)>> : n \in {"n1", "n2"}}

InitPresent ==
    /\ params \in [{1} -> ValidationRequests \cup CreateRequests \cup OtherRequests]
    /\ registry \in PresentRegistries

Init ==
    /\ InitAbsent \/ InitUpdate \/ InitPresent
    /\ local = [p \in DOMAIN params |-> InitLocal]
    /\ outcome = [p \in DOMAIN params |-> NoOutcome]
    /\ snapstore = SnapshotIds
    /\ calls = <<>>
    /\ now = 0

MaxRaceTimeout == 1

\* The request of a play that creates an image from an instance, wait=no.
RaceRequests ==
    {[DefaultRequest EXCEPT !.action = "create", !.instance_id = "i-1",
                            !.name = "n1", !.wait = FALSE, !.wait_timeout = wt] :
        wt \in 1..MaxRaceTimeout}

\* The same play run twice at once against one registry that holds no image
\* of the requested name.
InitRace ==
    /\ params \in {[p \in {1, 2} |-> r] : r \in RaceRequests}
    /\ registry = <<>>
    /\ local = [p \in DOMAIN params |-> InitLocal]
    /\ outcome = [p \in DOMAIN params |-> NoOutcome]
    /\ snapstore = SnapshotIds
    /\ calls = <<>>
    /\ now = 0

Next ==
    \/ \E p \in Procs : main(p)
    \/ \E p \in Procs : deregister_image_fetch(p)
    \/ \E p \in Procs : deregister_image_deregister(p)
    \/ \E p \in Procs : deregister_image_refetch(p)
    \/ \E p \in Procs : deregister_image_wait(p)
    \/ \E p \in Procs : deregister_image_waited(p)
    \/ \E p \in Procs : deregister_image_delete_snapshot(p)
    \/ \E p \in Procs : update_image_fetch(p)
    \/ \E p \in Procs : update_image_get_launch_permissions(p)
    \/ \E p \in Procs : update_image_set_launch_permissions(p)
    \/ \E p \in Procs : update_image_remove_launch_permissions(p)
    \/ \E p \in Procs : create_image_lookup(p)
    \/ \E p \in Procs : create_image_create(p)
    \/ \E p \in Procs : create_image_register(p)
    \/ \E p \in Procs : create_image_poll(p)
    \/ \E p \in Procs : create_image_polled(p)
    \/ \E p \in Procs : create_image_tags(p)
    \/ \E p \in Procs : create_image_fetch_again(p)
    \/ \E p \in Procs : create_image_set_launch_permissions(p)
    \/ RegistryProgress
    \/ RegistryForget

Spec == Init /\ [][Next]_vars

\* The steps two invocations of create_image without tags and launch
\* permissions take, in any interleaving.
NextRace ==
    \/ \E p \in Procs : main(p)
    \/ \E p \in Procs : create_image_lookup(p)
    \/ \E p \in Procs : create_image_create(p)
    \/ \E p \in Procs : create_image_poll(p)
    \/ \E p \in Procs : create_image_polled(p)
    \/ RegistryProgress

SpecRace == InitRace /\ [][NextRace]_vars

\* ================================================================ claims

Done(p) == local[p].pc = "done"

\* main did not hand the request to update_image.
NotUpdate(p) ==
    ~(params[p].image_id # 0 /\ PermsTruthy(params[p].launch_permissions))

IsPresent(p) == params[p].state = "present"

IsAbsent(p) == params[p].state = "absent" /\ params[p].image_id # 0

\* The calls of p that create an image.
CreatingCalls(p) ==
    SelectSeq(calls, LAMBDA c : c.p = p /\ c.op \in {"create_image", "register_image"})

\* The calls of p that change the registry.
ChangingCalls(p) ==
    SelectSeq(calls, LAMBDA c : c.p = p /\ c.op \notin {"get_all_images", "get_image",
                                                        "get_launch_permissions"})

\* Some call op of p matches the test.
SomeCall(p, op, Test(_)) ==
    \E k \in 1..Len(calls) : calls[k].p = p /\ calls[k].op = op /\ Test(calls[k])

\* ---- C1

\* The first fetch of deregister_image answered None for p.
FetchedNothing(p) ==
    /\ IsAbsent(p)
    /\ CallsOf(p) # <<>>
    /\ CallsOf(p)[1].op = "get_image"
    /\ CallsOf(p)[1].err = ""
    /\ CallsOf(p)[1].obj.kind = "none"

\* C1: deregister_image on an image id the registry does not know (the fetch
\* returns None) ends with a successful outcome carrying changed=False, and
\* issues no deregister and no delete-snapshot call.
C1_AbsentUnknownImageSucceeds ==
    \A p \in Procs :
        FetchedNothing(p) /\ Done(p) =>
            /\ outcome[p].kind = "exit"
            /\ outcome[p].changed = "False"
            /\ Issued(p, "deregister_image") = <<>>
            /\ Issued(p, "delete_snapshot") = <<>>

\* ---- C2

\* The lookup of create_image answered p with an image of the requested name.
LookupFound(p) ==
    LET look == Issued(p, "get_all_images") IN
    /\ look # <<>>
    /\ look[1].err = ""
    /\ look[1].obj.kind = "image"

\* C2: when the lookup by name finds an image of the requested name,
\* create_image ends at once with changed=False and issues no
\* create-from-instance, register, create-tags or set-launch-permissions call.
C2_ExistingNameNoChange ==
    \A p \in Procs :
        LookupFound(p) =>
            /\ Done(p)
            /\ outcome[p].kind = "exit"
            /\ outcome[p].changed = "False"
            /\ outcome[p].image_id = Issued(p, "get_all_images")[1].obj.id
            /\ ChangingCalls(p) = <<>>

C2_Witness ==
    \E p \in Procs :
        /\ LookupFound(p)
        /\ Done(p)
        /\ params[p].instance_id # ""
        /\ params[p].tags # <<>>
        /\ outcome[p].changed = "False"

\* ---- C3

\* A register request that sets both snapshot_id and device_mapping, or neither.
BothOrNeither(p) ==
    /\ IsPresent(p)
    /\ params[p].action = "register"
    /\ (params[p].snapshot_id # "") = (params[p].device_mapping # <<>>)

\* C3 as claimed: every state=present request with action=register that sets
\* both snapshot_id and device_mapping, or neither, is rejected with a failure
\* before any remote call.
C3_EveryRegisterRequestChecked ==
    \A p \in Procs :
        BothOrNeither(p) /\ Done(p) =>
            /\ outcome[p].kind = "fail"
            /\ CallsOf(p) = <<>>

\* C3 as amended: a state=present request with action=register that main does
\* not hand to update_image and that sets both snapshot_id and device_mapping,
\* or neither, is rejected with a failure before any remote call; every such
\* register request that reaches create_image has exactly one of the two set.
C3_RegisterRequestChecked ==
    \A p \in Procs :
        /\ BothOrNeither(p) /\ NotUpdate(p) /\ local[p].pc # "main" =>
              /\ Done(p)
              /\ outcome[p].kind = "fail"
              /\ CallsOf(p) = <<>>
        /\ /\ IsPresent(p)
           /\ params[p].action = "register"
           /\ NotUpdate(p)
           /\ CallsOf(p) # <<>>
           => (params[p].snapshot_id # "") # (params[p].device_mapping # <<>>)

C3_Witness ==
    \E p \in Procs :
        /\ BothOrNeither(p)
        /\ NotUpdate(p)
        /\ params[p].snapshot_id # ""
        /\ params[p].virtualization_type = "hvm"
        /\ outcome[p].kind = "fail"
        /\ outcome[p].msg = "device_mapping is mutually exclusive with snapshot_id"

\* ---- C4

\* p reached create_image with a valid device mapping and the lookup found
\* no image of the requested name.
AcceptedNewName(p) ==
    LET look == Issued(p, "get_all_images") IN
    /\ look # <<>>
    /\ look[1].err = ""
    /\ look[1].obj.kind = "none"
    /\ \A k \in 1..Len(params[p].device_mapping) :
          params[p].device_mapping[k].has_device_name

\* C4: an accepted request whose name is not yet in the registry issues
\* exactly one image-creating call: create-from-instance in create mode,
\* register in register mode, never none and never both.
C4_ExactlyOneCreatingCall ==
    \A p \in Procs :
        AcceptedNewName(p) /\ Done(p) =>
            /\ Len(CreatingCalls(p)) = 1
            /\ CreatingCalls(p)[1].op =
                   (IF params[p].action = "create" THEN "create_image"
                                                   ELSE "register_image")

\* ---- C5

\* p entered the polling loop with the id of an image it created.
PollingReached(p) ==
    /\ CreatingCalls(p) # <<>>
    /\ \A k \in 1..Len(CreatingCalls(p)) : CreatingCalls(p)[k].err = ""
    /\ local[p].pc \notin {"ci_create", "ci_register"}

\* Some fetch of p returned an image in state available.
SawAvailable(p) ==
    SomeCall(p, "get_image",
             LAMBDA c : c.err = "" /\ c.obj.kind = "image" /\ c.obj.state = "available")

\* Some fetch of p returned None instead of raising or returning a record.
SawNone(p) ==
    SomeCall(p, "get_image", LAMBDA c : c.err = "" /\ c.obj.kind = "none")

\* C5: the polling loop fetches at most wait_timeout times, and when it ends
\* without having seen the image available (also when every fetch raised
\* not found, or wait_timeout is 0) the operation ends with the failure
\* "Error while trying to find the new image".  Stated for the runs in which
\* every fetch raised an error or returned a record.
C5_PollEndsInTimeoutFailure ==
    \A p \in Procs :
        PollingReached(p) /\ ~SawNone(p) =>
            /\ Len(Issued(p, "get_image")) <= params[p].wait_timeout + 1
            /\ Done(p) /\ ~SawAvailable(p) =>
                  /\ outcome[p].kind = "fail"
                  /\ outcome[p].msg = "Error while trying to find the new image"

\* ---- C6

\* The snapshot ids of the mapping of the image p fetched first.
SnapshotsBeforeDeregister(p) ==
    LET bdm == Issued(p, "get_image")[1].obj.bdm IN
    [k \in 1..Len(bdm) |-> bdm[k].snapshot_id]

\* p deregistered the image and reports success with delete_snapshot set.
DeregisteredWithSnapshots(p) ==
    /\ IsAbsent(p)
    /\ params[p].delete_snapshot
    /\ SomeCall(p, "deregister_image", LAMBDA c : c.err = "")
    /\ outcome[p].kind = "exit"

\* C6: deregister_image with delete_snapshot set, having deregistered the
\* image, returns as snapshots_deleted the snapshot ids of the block device
\* mapping it read before the deregister call, whatever the delete-snapshot
\* calls answered.
C6_SnapshotsDeletedAreThoseCaptured ==
    \A p \in Procs :
        DeregisteredWithSnapshots(p) =>
            /\ outcome[p].changed = "True"
            /\ outcome[p].has_snapshots_deleted
            /\ outcome[p].snapshots_deleted = SnapshotsBeforeDeregister(p)

C6_Witness ==
    \E p \in Procs :
        /\ DeregisteredWithSnapshots(p)
        /\ Len(outcome[p].snapshots_deleted) = 2
        /\ SomeCall(p, "delete_snapshot", LAMBDA c : c.err = "InvalidSnapshot.NotFound")

\* ---- C7

\* Some delete-snapshot call of p failed with a code other than not found.
SnapshotDeleteFailed(p) ==
    SomeCall(p, "delete_snapshot",
             LAMBDA c : c.err \notin {"", "InvalidSnapshot.NotFound"})

\* C7: a delete-snapshot call that fails with a code other than
\* InvalidSnapshot.NotFound is not swallowed: the operation ends in a failure
\* and does not report changed=True.
C7_OtherSnapshotErrorsFail ==
    \A p \in Procs :
        SnapshotDeleteFailed(p) /\ Done(p) =>
            /\ outcome[p].kind = "fail"
            /\ outcome[p].changed # "True"

\* ---- C8

\* The requested launch permissions with the account ids as strings.
Desired(p) ==
    LET lp == params[p].launch_permissions IN
    Perms(lp.has_user_ids, [k \in 1..Len(lp.user_ids) |-> str(lp.user_ids[k])],
          lp.has_group_names, lp.group_names)

\* update_image of p got the current launch permissions from the registry.
GotCurrent(p) ==
    /\ IsPresent(p)
    /\ ~NotUpdate(p)
    /\ SomeCall(p, "get_launch_permissions", LAMBDA c : c.err = "")

Current(p) == Issued(p, "get_launch_permissions")[1].perms

\* C8: update_image, when the desired set equals the current set, reports
\* changed=False and issues no grant and no revoke; when it differs and names
\* an account or a group, it issues exactly one grant carrying the desired set
\* with the account ids as strings, no revoke, and reports changed=True once
\* the grant is accepted.
C8_UpdateGrantsDesired ==
    \A p \in Procs :
        GotCurrent(p) /\ Done(p) =>
            /\ Current(p) = Desired(p) =>
                  /\ outcome[p].kind = "exit"
                  /\ outcome[p].changed = "False"
                  /\ ChangingCalls(p) = <<>>
            /\ Current(p) # Desired(p) /\ HasAccountOrGroup(Desired(p)) =>
                  /\ Len(ChangingCalls(p)) = 1
                  /\ ChangingCalls(p)[1].op = "set_launch_permissions"
                  /\ ChangingCalls(p)[1].perms = Desired(p)
                  /\ ChangingCalls(p)[1].err = "" =>
                        /\ outcome[p].kind = "exit"
                        /\ outcome[p].changed = "True"

C8_Witness ==
    \E p \in Procs :
        /\ GotCurrent(p)
        /\ Done(p)
        /\ Current(p) # Desired(p)
        /\ params[p].launch_permissions # Desired(p)
        /\ Len(ChangingCalls(p)) = 1
        /\ ChangingCalls(p)[1].err = ""
        /\ outcome[p].changed = "True"

\* ---- C9

\* The failures main reports.
MainMessages ==
    {"image_id needs to be an ami image to registered/delete",
     "action must be create or register",
     "instance_id is required for new image",
     "virtualization_type is required for new image",
     "virtualization_type must be either paravirtual or hvm",
     "either snapshot_id or device_mapping is required for new image",
     "device_mapping is mutually exclusive with snapshot_id",
     "architecture must be eith x86_64 or i386",
     "snapshot_id is required when using delete_root_volume_on_termination",
     "sriov_net_support must be simple or not set",
     "name parameter is required for new image"}

DeviceMessage == "Device name must be set for volume"

\* The request of p has one of the faults main checks before create_image.
FaultyForMain(p) ==
    LET req == params[p] IN
    \/ req.action \notin {"create", "register"}
    \/ req.action = "create" /\ req.instance_id = ""
    \/ req.action = "register" /\ req.virtualization_type \notin {"paravirtual", "hvm"}
    \/ req.action = "register" /\ req.architecture \notin {"x86_64", "i386"}
    \/ req.action = "register"
          /\ (req.snapshot_id # "") = (req.device_mapping # <<>>)
    \/ req.name = ""

\* Some entry of the device mapping of p has no device name.
FaultyDevice(p) ==
    \E k \in 1..Len(params[p].device_mapping) :
        ~params[p].device_mapping[k].has_device_name

ValidationFailure(p) ==
    outcome[p].kind = "fail" /\ outcome[p].msg \in MainMessages \cup {DeviceMessage}

\* The lookup of p found no image and its device mapping has a nameless entry.
LookupThenFaultyDevice(p) ==
    LET look == Issued(p, "get_all_images") IN
    /\ look # <<>>
    /\ look[1].err = ""
    /\ look[1].obj.kind = "none"
    /\ FaultyDevice(p)

\* C9 as claimed: every validation error, the device-mapping entry without a
\* device name included, is reported before any remote call of the invocation.
C9_ValidationBeforeAnyCall ==
    \A p \in Procs : ValidationFailure(p) => CallsOf(p) = <<>>

\* C9 as amended: every fault main checks is reported as a failure before any
\* remote call; a device-mapping entry without a device name is reported by
\* create_image after the lookup by name, its only remote call, found no
\* image; no validation error follows a call that changes the registry.
C9_ValidationBeforeAnyChange ==
    \A p \in Procs :
        /\ IsPresent(p) /\ NotUpdate(p) /\ FaultyForMain(p) /\ local[p].pc # "main" =>
              /\ Done(p)
              /\ outcome[p].kind = "fail"
              /\ outcome[p].msg \in MainMessages
        /\ outcome[p].kind = "fail" /\ outcome[p].msg \in MainMessages =>
              CallsOf(p) = <<>>
        /\ LookupThenFaultyDevice(p) =>
              /\ Done(p)
              /\ outcome[p].kind = "fail"
              /\ outcome[p].msg = DeviceMessage
        /\ outcome[p].kind = "fail" /\ outcome[p].msg = DeviceMessage =>
              /\ Len(CallsOf(p)) = 1
              /\ CallsOf(p)[1].op = "get_all_images"
              /\ CallsOf(p)[1].err = ""
              /\ CallsOf(p)[1].obj.kind = "none"

C9_Witness ==
    \E p \in Procs :
        /\ outcome[p].kind = "fail"
        /\ outcome[p].msg = DeviceMessage
        /\ params[p].device_mapping[1].has_device_name
        /\ Len(CallsOf(p)) = 1

\* ---- C10

\* Some fetch of p failed with a code that is neither not found nor unavailable.
FetchFailedOtherwise(p) ==
    SomeCall(p, "get_image",
             LAMBDA c : c.err \notin {"", "InvalidAMIID.NotFound",
                                      "InvalidAMIID.Unavailable"})

\* C10: in create_image a fetch failure whose code is neither not found nor
\* unavailable is fatal on whichever iteration it occurs and whatever wait
\* is: the operation ends with a failure that carries the error code.
C10_OtherFetchErrorsFatal ==
    \A p \in Procs :
        IsPresent(p) /\ NotUpdate(p) /\ FetchFailedOtherwise(p) /\ Done(p) =>
            /\ outcome[p].kind = "fail"
            /\ outcome[p].code \notin {"", "InvalidAMIID.NotFound",
                                       "InvalidAMIID.Unavailable"}

\* ---- C11

\* Every fetch of p returned an image record: none raised, none returned None.
EveryFetchReturnedRecord(p) ==
    \A k \in 1..Len(Issued(p, "get_image")) :
        /\ Issued(p, "get_image")[k].err = ""
        /\ Issued(p, "get_image")[k].obj.kind = "image"

\* C11: with wait=no, create_image, having created the image, returns its
\* success result whether or not a fetch has seen the image available.
\* Stated for requests with a positive wait_timeout, no tags and no launch
\* permissions, and for runs in which every fetch returned a record.
C11_NoWaitReturnsSuccess ==
    \A p \in Procs :
        /\ PollingReached(p)
        /\ ~params[p].wait
        /\ params[p].wait_timeout > 0
        /\ params[p].tags = <<>>
        /\ ~PermsTruthy(params[p].launch_permissions)
        /\ EveryFetchReturnedRecord(p)
        /\ Done(p)
        => /\ outcome[p].kind = "exit"
           /\ outcome[p].changed = "True"

\* ---- C12

\* The create-tags call of p raised.
TaggingFailed(p) == SomeCall(p, "create_tags", LAMBDA c : c.err # "")

\* C12: when tags are requested and the create-tags call fails, create_image
\* ends with the failure "Image tagging failed", the image it created stays
\* in the registry (no deregister call), and no fetch, launch-permission or
\* other call follows the failed create-tags call.
C12_TaggingFailureIsFatal ==
    \A p \in Procs :
        TaggingFailed(p) =>
            /\ Done(p)
            /\ outcome[p].kind = "fail"
            /\ outcome[p].msg = "Image tagging failed"
            /\ Issued(p, "deregister_image") = <<>>
            /\ Issued(p, "set_launch_permissions") = <<>>
            /\ CallsOf(p)[Len(CallsOf(p))].op = "create_tags"
            /\ \E id \in 1..Len(registry) :
                  /\ id = CreatingCalls(p)[Len(CreatingCalls(p))].image_id
                  /\ registry[id].kind = "image"
                  /\ registry[id].name = params[p].name

C12_Witness ==
    \E p \in Procs :
        /\ TaggingFailed(p)
        /\ PermsTruthy(params[p].launch_permissions)
        /\ params[p].tags # <<>>
        /\ outcome[p].kind = "fail"
        /\ Len(ImagesNamed(params[p].name)) = 1

\* ---- C13

\* p asked to wait and its deregister call succeeded.
DeregisteredAndWaiting(p) ==
    /\ IsAbsent(p)
    /\ params[p].wait
    /\ SomeCall(p, "deregister_image", LAMBDA c : c.err = "")

\* The last fetch p made.
LastFetch(p) == Issued(p, "get_image")[Len(Issued(p, "get_image"))]

\* The fetches of p after the deregister call; the first fetch precedes it.
FetchesAfterDeregister(p) == SubSeq(Issued(p, "get_image"), 2, Len(Issued(p, "get_image")))

\* C13: deregister_image with wait set fetches the image again after the
\* deregister call for as long as the fetch returns an object and the
\* deadline (time of the first re-fetch + wait_timeout) lies ahead, a fetch
\* every 3 seconds at least.  It reports changed=True only if its last fetch
\* returned None, and it ends with the timeout failure whenever its last
\* fetch still returned an object.
C13_WaitEndsGoneOrTimedOut ==
    \A p \in Procs :
        DeregisteredAndWaiting(p) =>
            LET after == FetchesAfterDeregister(p) IN
            /\ \A k \in 1..(Len(after) - 1) :
                  after[k].err = "" /\ after[k].obj.kind # "none"
            /\ DeregisterSleep * (Len(after) - 2) < params[p].wait_timeout
            /\ Done(p) /\ outcome[p].kind = "exit" =>
                  /\ outcome[p].changed = "True"
                  /\ after # <<>>
                  /\ LastFetch(p).err = ""
                  /\ LastFetch(p).obj.kind = "none"
            /\ Done(p) /\ after # <<>> /\ LastFetch(p).err = ""
                       /\ LastFetch(p).obj.kind # "none" =>
                  /\ outcome[p].kind = "fail"
                  /\ outcome[p].msg = "timed out waiting for image to be deregistered/deleted"
                  /\ now >= local[p].deadline

\* p polled at least once after the re-fetch and saw the image disappear.
C13_Witness ==
    \E p \in Procs :
        /\ DeregisteredAndWaiting(p)
        /\ Len(FetchesAfterDeregister(p)) >= 2
        /\ Done(p)
        /\ outcome[p].kind = "exit"
        /\ outcome[p].changed = "True"
        /\ LastFetch(p).obj.kind = "none"

\* p polled at least once and ran into the deadline.
C13_WitnessTimeout ==
    \E p \in Procs :
        /\ DeregisteredAndWaiting(p)
        /\ Len(FetchesAfterDeregister(p)) >= 2
        /\ Done(p)
        /\ outcome[p].kind = "fail"
        /\ LastFetch(p).obj.kind # "none"

\* ---- C14

\* The lookup of p found no image of the requested name.
ObservedNoImage(p) ==
    LET look == Issued(p, "get_all_images") IN
    /\ look # <<>>
    /\ look[1].err = ""
    /\ look[1].obj.kind = "none"

\* p is past the create call and no create call of p raised.
PastCreate(p) ==
    /\ local[p].pc \notin {"main", "ci_lookup", "ci_create"}
    /\ \A k \in 1..Len(Issued(p, "create_image")) : Issued(p, "create_image")[k].err = ""

\* C14: of two create_image invocations for one name, interleaved against a
\* registry without an image of that name, each one whose lookup observed no
\* image issues its create call whatever the other has done meanwhile: once
\* both are past it, two images carry the name, and each invocation that saw
\* its image available reports changed=True with the id of its own image.
\* The witness is the state the claim says can be reached.
C14_BothCreateAfterBothSawNone ==
    \A p, q \in Procs :
        /\ p # q
        /\ ObservedNoImage(p) /\ ObservedNoImage(q)
        /\ PastCreate(p) /\ PastCreate(q)
        => /\ Len(Issued(p, "create_image")) = 1
           /\ Len(Issued(q, "create_image")) = 1
           /\ Issued(p, "create_image")[1].image_id # Issued(q, "create_image")[1].image_id
           /\ Len(ImagesNamed(params[p].name)) = 2
           /\ Done(p) /\ EveryFetchReturnedRecord(p) /\ SawAvailable(p) =>
                 /\ outcome[p].kind = "exit"
                 /\ outcome[p].changed = "True"
                 /\ outcome[p].image_id = Issued(p, "create_image")[1].image_id

C14_Witness ==
    /\ Procs = {1, 2}
    /\ params[1].name = params[2].name
    /\ ObservedNoImage(1) /\ ObservedNoImage(2)
    /\ Len(Issued(1, "create_image")) = 1 /\ Len(Issued(2, "create_image")) = 1
    /\ Len(ImagesNamed(params[1].name)) = 2
    /\ Done(1) /\ Done(2)
    /\ outcome[1].kind = "exit" /\ outcome[1].changed = "True"
    /\ outcome[2].kind = "exit" /\ outcome[2].changed = "True"
    /\ outcome[1].image_id # outcome[2].image_id

\* ---- C15

\* The snapshot ids p asked EC2 to delete.
DeleteCallsFor(p) ==
    {Issued(p, "delete_snapshot")[k].snapshot_id : k \in 1..Len(Issued(p, "delete_snapshot"))}

\* No delete-snapshot call of p raised anything but snapshot not found.
OnlyNotFoundErrors(p) ==
    \A k \in 1..Len(Issued(p, "delete_snapshot")) :
        Issued(p, "delete_snapshot")[k].err \in {"", "InvalidSnapshot.NotFound"}

\* C15: deregister_image with delete_snapshot set, having deregistered the
\* image, issues a delete-snapshot call for every snapshot id it captured
\* from the block device mapping; a snapshot-not-found error of one call
\* does not keep it from the calls for the snapshots after it.
C15_EveryCapturedSnapshotDeleted ==
    \A p \in Procs :
        DeregisteredWithSnapshots(p) /\ Done(p) /\ OnlyNotFoundErrors(p) =>
            \A k \in 1..Len(SnapshotsBeforeDeregister(p)) :
                SnapshotsBeforeDeregister(p)[k] \in DeleteCallsFor(p)

\* ---- C16

\* The set names no account and no group.
NamesNobody(d) ==
    /\ d.has_user_ids => d.user_ids = <<>>
    /\ d.has_group_names => d.group_names = <<>>

\* The grant and revoke calls of p.
GrantsAndRevokes(p) ==
    SelectSeq(calls, LAMBDA c : c.p = p /\ c.op \in {"set_launch_permissions",
                                                     "remove_launch_permissions"})

\* C16: update_image with a desired set that differs from the current set
\* and names no account and no group issues, if the current set names an
\* account or a group, exactly one revoke carrying the whole current set and
\* reports changed=True once the revoke is accepted; otherwise it issues no
\* grant and no revoke and reports changed=False.  No invocation issues more
\* than one call out of grant and revoke.
C16_UpdateRevokesCurrent ==
    \A p \in Procs :
        /\ Len(GrantsAndRevokes(p)) <= 1
        /\ GotCurrent(p) /\ Done(p) /\ Current(p) # Desired(p)
                         /\ NamesNobody(Desired(p)) =>
              IF ~NamesNobody(Current(p))
              THEN /\ Len(ChangingCalls(p)) = 1
                   /\ ChangingCalls(p)[1].op = "remove_launch_permissions"
                   /\ ChangingCalls(p)[1].perms = Current(p)
                   /\ ChangingCalls(p)[1].err = "" =>
                         /\ outcome[p].kind = "exit"
                         /\ outcome[p].changed = "True"
              ELSE /\ ChangingCalls(p) = <<>>
                   /\ outcome[p].kind = "exit"
                   /\ outcome[p].changed = "False"

\* A revoke of a current set that names a group only.
C16_Witness ==
    \E p \in Procs :
        /\ GotCurrent(p)
        /\ Done(p)
        /\ NamesNobody(Desired(p))
        /\ Current(p).group_names # <<>>
        /\ Current(p).user_ids = <<>>
        /\ Len(Issued(p, "remove_launch_permissions")) = 1
        /\ Issued(p, "remove_launch_permissions")[1].err = ""
        /\ outcome[p].changed = "True"

\* Nothing to revoke: both sets name nobody, yet they differ.
C16_WitnessNoCall ==
    \E p \in Procs :
        /\ GotCurrent(p)
        /\ Done(p)
        /\ Current(p) # Desired(p)
        /\ NamesNobody(Desired(p))
        /\ NamesNobody(Current(p))
        /\ outcome[p].changed = "False"

\* ---- C17

\* The first fetch of deregister_image returned p an object without an id.
FetchedGone(p) ==
    /\ IsAbsent(p)
    /\ CallsOf(p) # <<>>
    /\ CallsOf(p)[1].op = "get_image"
    /\ CallsOf(p)[1].err = ""
    /\ CallsOf(p)[1].obj.kind = "gone"

\* C17: when the fetch of deregister_image returns an object without an id,
\* the operation ends at once with the successful outcome "Image has already
\* been deleted", changed=False, and issues no deregister call, no further
\* fetch and no delete-snapshot call.
C17_AlreadyDeletedIsNoOp ==
    \A p \in Procs :
        FetchedGone(p) =>
            /\ Done(p)
            /\ outcome[p].kind = "exit"
            /\ outcome[p].changed = "False"
            /\ outcome[p].msg = "Image has already been deleted"
            /\ Len(CallsOf(p)) = 1

C17_Witness ==
    \E p \in Procs :
        /\ FetchedGone(p)
        /\ params[p].wait
        /\ params[p].delete_snapshot
        /\ Done(p)
        /\ outcome[p].msg = "Image has already been deleted"

\* ---- C18

\* p asked create_image for launch permissions.
WantsPermissions(p) ==
    /\ IsPresent(p)
    /\ NotUpdate(p)
    /\ PermsTruthy(params[p].launch_permissions)

\* The id of the image p created last.
CreatedId(p) == CreatingCalls(p)[Len(CreatingCalls(p))].image_id

\* Call k of p is the fetch of lines 504-505: it follows the create-tags call
\* or, without tags, the fetch that saw the image available.
IsFetchAgain(p, k) ==
    LET c == CallsOf(p) IN
    /\ k \in 2..Len(c)
    /\ c[k].op = "get_image"
    /\ \/ c[k - 1].op = "create_tags"
       \/ /\ c[k - 1].op = "get_image"
          /\ c[k - 1].err = ""
          /\ c[k - 1].obj.kind = "image"
          /\ c[k - 1].obj.state = "available"

\* The fetch before the grant, or the grant itself, raised for p.
PermissionStepRaised(p) ==
    \/ \E k \in 1..Len(CallsOf(p)) : IsFetchAgain(p, k) /\ CallsOf(p)[k].err # ""
    \/ SomeCall(p, "set_launch_permissions", LAMBDA c : c.err # "")

\* C18: create_image with launch permissions requested fetches the image
\* again after the tagging and makes the grant on what it fetched: every
\* grant carries the requested permissions and the id of the created image,
\* and directly follows a fetch of that id that returned the image, which
\* follows the create-tags call when tags were requested; a successful run
\* ends with the grant.  When that fetch or the grant raises, the operation
\* ends with a failure that carries the id of the created image.
C18_PermissionsAfterFetchAgain ==
    \A p \in Procs :
        WantsPermissions(p) =>
            LET c == CallsOf(p) IN
            /\ \A k \in 1..Len(c) :
                  c[k].op = "set_launch_permissions" =>
                      /\ c[k].image_id = CreatedId(p)
                      /\ c[k].perms = params[p].launch_permissions
                      /\ IsFetchAgain(p, k - 1)
                      /\ c[k - 1].image_id = CreatedId(p)
                      /\ c[k - 1].err = "" /\ c[k - 1].obj.kind = "image"
                      /\ params[p].tags # <<>> => c[k - 2].op = "create_tags"
            /\ Done(p) /\ outcome[p].kind = "exit" /\ outcome[p].changed = "True" =>
                  /\ c[Len(c)].op = "set_launch_permissions"
                  /\ c[Len(c)].err = ""
            /\ PermissionStepRaised(p) =>
                  /\ Done(p)
                  /\ outcome[p].kind = "fail"
                  /\ outcome[p].code = c[Len(c)].err
                  /\ outcome[p].image_id = CreatedId(p)

\* The grant raised after the tagging and the second fetch went through.
C18_Witness ==
    \E p \in Procs :
        /\ WantsPermissions(p)
        /\ params[p].tags # <<>>
        /\ SomeCall(p, "set_launch_permissions", LAMBDA c : c.err # "")
        /\ outcome[p].kind = "fail"
        /\ outcome[p].image_id = CreatedId(p)

\* The fetch before the grant raised.
C18_WitnessFetch ==
    \E p \in Procs :
        /\ WantsPermissions(p)
        /\ Issued(p, "set_launch_permissions") = <<>>
        /\ PermissionStepRaised(p)
        /\ outcome[p].image_id = CreatedId(p)

\* The permissions were granted.
C18_WitnessGranted ==
    \E p \in Procs :
        /\ WantsPermissions(p)
        /\ Done(p)
        /\ outcome[p].changed = "True"
        /\ SomeCall(p, "set_launch_permissions", LAMBDA c : c.err = "")

\* ---- C19

\* Before call n of p, a create or register call of p succeeded and a later
\* fetch of p returned the image that call made in state available.
CreatedAndSeenAvailableBefore(p, n) ==
    LET c == CallsOf(p) IN
    \E k, m \in 1..(n - 1) :
        /\ k < m
        /\ c[k].op \in {"create_image", "register_image"}
        /\ c[k].err = ""
        /\ c[m].op = "get_image"
        /\ c[m].err = ""
        /\ c[m].obj.kind = "image"
        /\ c[m].obj.id = c[k].image_id
        /\ c[m].obj.state = "available"

EveryCallReturned(p) ==
    \A k \in 1..Len(CallsOf(p)) :
        /\ CallsOf(p)[k].err = ""
        /\ CallsOf(p)[k].op = "get_image" => CallsOf(p)[k].obj.kind # "none"

\* C20: an invocation that entered create_image, deregister_image or
\* update_image and whose remote calls all returned ends with exactly one
\* structured outcome: a success result, or a failure result with a message.
\* No run ends on an exception nobody catches or without any outcome.
C20_EveryRunReportsOutcome ==
    \A p \in Procs :
        CallsOf(p) # <<>> /\ EveryCallReturned(p) /\ Done(p) =>
            /\ outcome[p].kind \in {"exit", "fail"}
            /\ outcome[p].kind = "fail" => outcome[p].msg # ""

\* ---- C21

\* The last fetch p made after the deregister call found the image gone.
LastFetchFoundNothing(p) ==
    /\ FetchesAfterDeregister(p) # <<>>
    /\ LastFetch(p).err = ""
    /\ LastFetch(p).obj.kind = "none"

\* C21: deregister_image with wait set reports the timeout failure only if
\* its last fetch still returned an object: whenever the re-fetch or a
\* polling fetch returns None, the operation ends with the success outcome
\* changed=True, also when the deadline passes during the sleep after that
\* fetch and when wait_timeout is 0.
C21_TimeoutOnlyWhileRetrievable ==
    \A p \in Procs :
        DeregisteredAndWaiting(p) /\ LastFetchFoundNothing(p) /\ Done(p) =>
            /\ outcome[p].kind = "exit"
            /\ outcome[p].changed = "True"

\* ---- C22

\* The remote calls each function of the module makes.
DeregisterOps == {"get_image", "deregister_image", "delete_snapshot"}

UpdateOps == {"get_image", "get_launch_permissions", "set_launch_permissions",
              "remove_launch_permissions"}

CreateOps == {"get_all_images", "create_image", "register_image", "get_image",
              "create_tags", "set_launch_permissions"}

\* Every remote call of p is one of ops.
OnlyCalls(p, ops) == \A k \in 1..Len(CallsOf(p)) : CallsOf(p)[k].op \in ops

\* The calls of an invocation are those of one function only: of
\* deregister_image with state=absent; of update_image, with no create and
\* no register call, with state=present, image_id and launch_permissions;
\* of create_image otherwise.  No invocation issues both a deregister call
\* and a create or register call.
C22_OperationsExclusive ==
    \A p \in Procs :
        /\ params[p].state = "absent" => OnlyCalls(p, DeregisterOps)
        /\ IsPresent(p) /\ ~NotUpdate(p) =>
              /\ OnlyCalls(p, UpdateOps)
              /\ CreatingCalls(p) = <<>>
              /\ Issued(p, "get_all_images") = <<>>
        /\ params[p].state # "absent" /\ ~(IsPresent(p) /\ ~NotUpdate(p)) =>
              OnlyCalls(p, CreateOps)
        /\ Issued(p, "deregister_image") = <<>> \/ CreatingCalls(p) = <<>>

\* C22: each invocation performs exactly one of the operations main selects:
\* only deregister_image with state=absent, only update_image with
\* state=present, image_id and launch_permissions (no create or register
\* call, whatever action, instance_id and name are), only create_image
\* otherwise, and never both a deregister and a create or register call.
\* An invocation that ends has run the function selected for it, which
\* shows in its first remote call, unless main rejected the request with a
\* failure.
C22_ExactlyOneOperation ==
    /\ C22_OperationsExclusive
    /\ \A p \in Procs :
          Done(p) => CallsOf(p) # <<>> \/ outcome[p].kind = "fail"

====
